---- MODULE Spec2Model ----
(***************************************************************************)
(* Model of the garage add-on: the auto-save widget (GarageManager), the   *)
(* gateway handlers of backend/server.js (list, save, get) and the remote  *)
(* customer metafield store they talk to.                                  *)
(*                                                                         *)
(* Strings that the code inspects are sequences of tokens, so that         *)
(* startsWith, JSON.stringify and JSON.parse are computed, not assumed.    *)
(* Time is counted in ticks; the debounce interval of 1000 ms is D ticks.  *)
(***************************************************************************)
EXTENDS Integers, Sequences, FiniteSets, TLC

\* ------------------------------------------------------------------ bounds
\* Number of distinct vehicle identifiers.
NumVehicles == 2
\* Ticks in the debounce interval (a tick is 1000/D ms).
D == 2
\* Longest list a client other than the widget posts to the gateway.
MaxList == 2
\* Writes to the customer's value by clients other than the widget.
MaxOtherWrites == 1
\* Largest number of records the store puts in one page.
MaxNodes == 2
\* Save requests the gateway receives in the run with overlapping requests.
MaxSaveRequests == 3
\* Size of the small catalogs; the large ones are sized around the result cap.
MaxSmallCatalog == 3
\* Times the user opens the picker.
MaxOpens == 3
\* Largest number of vehicles the importer is given.
MaxParsed == 51

\* ------------------------------------------------------- program constants
\* while (hasNextPage && pageCount < 10)
MaxPages == 10
\* vehicles.slice(0, 100)
Cap == 100
\* const BATCH_SIZE = 25
BATCH_SIZE == 25
\* setTimeout(resolve, 500) between two batches of the importer
RateLimitMs == 500

\* -------------------------------------------------------------- data types
VehicleIds == {ToString(i) : i \in 1..NumVehicles}
\* A vehicle as the widget holds it; entries are matched on vehicle_id alone.
Vehicles == [vehicle_id : VehicleIds]

RECURSIVE SeqsUpTo(_, _)
SeqsUpTo(S, n) ==
  IF n = 0 THEN {<<>>}
  ELSE LET shorter == SeqsUpTo(S, n - 1)
       IN  shorter \cup {Append(s, x) : s \in {t \in shorter : Len(t) = n - 1}, x \in S}

Ids(list) == {list[i].vehicle_id : i \in 1..Len(list)}
NoDuplicates(list) == \A i, j \in 1..Len(list) : list[i].vehicle_id = list[j].vehicle_id => i = j

\* ------------------------------------------------------------ customer ids
\* The two customers the store knows, by their numeric id.
CustomerNumbers == {"123456", "789"}
GidScheme == <<"gid://">>
GidCustomerPrefix == <<"gid://", "shopify/Customer/">>
Bare(n) == <<n>>
Qualified(n) == GidCustomerPrefix \o <<n>>
\* An absent or empty customerId: falsy in JavaScript.
NoCustomerId == <<>>
\* A customerId that is no string: a JSON number in a request body, an array in
\* a query string (?customerId[]=n). It is truthy and has no startsWith method.
NonString(n) == <<"(non-string)", n>>
IsString(customerId) == customerId = <<>> \/ customerId[1] # "(non-string)"

StartsWith(s, prefix) ==
  /\ Len(s) >= Len(prefix)
  /\ SubSeq(s, 1, Len(prefix)) = prefix

\* A customerGid that always prepends the prefix (the slip the check guards against).
CustomerGidAlwaysPrefix(customerId) == GidCustomerPrefix \o customerId

CustomerGid(customerId) ==
  IF StartsWith(customerId, GidScheme) THEN customerId ELSE GidCustomerPrefix \o customerId

\* -------------------------------------------------------------------- JSON
\* JSON text of a list of vehicles: "[", the items separated by ",", "]".
RECURSIVE JoinItems(_)
JoinItems(list) ==
  IF list = <<>> THEN <<>>
  ELSE IF Len(list) = 1 THEN <<list[1].vehicle_id>>
  ELSE <<list[1].vehicle_id, ",">> \o JoinItems(Tail(list))

\* A stringify that drops the last item.
JSONstringifyTruncating(list) ==
  <<"[">> \o JoinItems(IF list = <<>> THEN list ELSE SubSeq(list, 1, Len(list) - 1)) \o <<"]">>

JSONstringify(list) == <<"[">> \o JoinItems(list) \o <<"]">>

RECURSIVE ParseItems(_)
ParseItems(toks) ==
  IF toks = <<>> THEN <<>>
  ELSE IF toks[1] = "," THEN ParseItems(Tail(toks))
  ELSE <<[vehicle_id |-> toks[1]]>> \o ParseItems(Tail(toks))

JSONparse(text) == ParseItems(SubSeq(text, 2, Len(text) - 1))

\* ------------------------------------------------------------ remote store
\* One metafield (namespace custom, key garage) per customer, or none yet.
NoMetafield == [id |-> <<>>, namespace |-> "", key |-> "", value |-> <<>>]
StoreOwners == {Qualified(n) : n \in CustomerNumbers}
EmptyStore == [o \in StoreOwners |-> NoMetafield]

\* What the store can answer to a mutation and to a query.
Outcomes == {"ok", "errors", "userErrors", "throw"}
ReadOutcomes == {"ok", "errors", "throw"}

\* A metafieldsSet that keeps a value already stored (first writer wins).
MetafieldsSetOnce(st, input) ==
  IF st[input.ownerId] # NoMetafield THEN st
  ELSE [st EXCEPT ![input.ownerId] =
          [id |-> input.ownerId, namespace |-> input.namespace, key |-> input.key,
           value |-> input.value]]

\* A metafieldsSet that appends to the stored value instead of replacing it.
MetafieldsSetAppending(st, input) ==
  [st EXCEPT ![input.ownerId] =
     [id |-> input.ownerId, namespace |-> input.namespace, key |-> input.key,
      value |-> IF st[input.ownerId] = NoMetafield THEN input.value
                ELSE JSONstringify(JSONparse(st[input.ownerId].value) \o JSONparse(input.value))]]

\* metafieldsSet: the one value under (owner, namespace, key) is replaced.
MetafieldsSet(st, input) ==
  [st EXCEPT ![input.ownerId] =
     [id |-> input.ownerId, namespace |-> input.namespace, key |-> input.key,
      value |-> input.value]]

\* ----------------------------------------------------------------- gateway
\* A request body of POST /apps/customer/vehicles/save. vehiclesKind tells an
\* array from a missing field and from a value that is no array.
VehiclesKinds == {"array", "missing", "nonarray"}
SaveBody(customerId, kind, vehicles) ==
  [customerId |-> customerId, vehiclesKind |-> kind, vehicles |-> vehicles]

Response(status, success, error, metafields, vehicles) ==
  [status |-> status, success |-> success, error |-> error,
   metafields |-> metafields, vehicles |-> vehicles, count |-> Len(vehicles)]

\* customerId.startsWith is not a function: the TypeError is thrown before the
\* try block, so the async handler rejects without having sent a response.
Thrown == Response(0, FALSE, "TypeError", <<>>, <<>>)

\* What becomes of a handler that rejected depends on the framework: Express 4
\* leaves the rejection unhandled and no response is ever sent; Express 5
\* passes it to its error handler, which answers 500.
UncaughtOutcomes == {"no response", "error handler"}
Delivered(response, uncaught) ==
  IF response = Thrown /\ uncaught = "error handler"
  THEN [response EXCEPT !.status = 500]
  ELSE response

\* The outcome the store gives a write: an owner it does not know is a userError.
WriteOutcome(st, ownerId, outcome) ==
  IF outcome = "ok" /\ ownerId \notin DOMAIN st THEN "userErrors" ELSE outcome

\* variables = { metafields: [{ ownerId, namespace, key, value }] }
SaveVariables(customerId, vehicles) ==
  [ownerId |-> CustomerGid(customerId), namespace |-> "custom", key |-> "garage",
   value |-> JSONstringify(vehicles)]

\* Handlers without the data.errors test: every rejection ends in the catch.
UpstreamStatusAll500(outcome) == IF outcome = "ok" THEN 200 ELSE 500

\* The status the handlers answer with after the store's answer: 200 when the
\* store accepted, 400 on data.errors and on userErrors, 500 from the catch.
UpstreamStatus(outcome) ==
  CASE outcome = "ok" -> 200
    [] outcome \in {"errors", "userErrors"} -> 400
    [] OTHER -> 500

\* A presence test that lets every customerId through.
MissingNever(value) == FALSE

\* if (!customerId): absent or the empty string.
Missing(value) == value = NoCustomerId

\* POST /apps/customer/vehicles/save: the new store, the response and the
\* number of calls made to the store.
SaveHandler(st, body, outcome) ==
  IF Missing(body.customerId)
  THEN [store |-> st, calls |-> 0, ownerId |-> NoCustomerId,
        response |-> Response(400, FALSE, "customerId is required", <<>>, <<>>)]
  ELSE IF body.vehiclesKind # "array"
  THEN [store |-> st, calls |-> 0, ownerId |-> NoCustomerId,
        response |-> Response(400, FALSE, "vehicles must be an array", <<>>, <<>>)]
  ELSE IF ~IsString(body.customerId)
  THEN [store |-> st, calls |-> 0, ownerId |-> NoCustomerId, response |-> Thrown]
  ELSE LET input == SaveVariables(body.customerId, body.vehicles)
           out == WriteOutcome(st, input.ownerId, outcome)
           written == MetafieldsSet(st, input)
       IN  CASE out = "ok" ->
                  [store |-> written, calls |-> 1, ownerId |-> input.ownerId,
                   response |-> Response(UpstreamStatus(out), TRUE, "", <<written[input.ownerId]>>, <<>>)]
             [] out = "errors" ->
                  [store |-> st, calls |-> 1, ownerId |-> input.ownerId,
                   response |-> Response(UpstreamStatus(out), FALSE, "errors", <<>>, <<>>)]
             [] out = "userErrors" ->
                  [store |-> st, calls |-> 1, ownerId |-> input.ownerId,
                   response |-> Response(UpstreamStatus(out), FALSE, "userErrors", <<>>, <<>>)]
             [] OTHER ->
                  [store |-> st, calls |-> 1, ownerId |-> input.ownerId,
                   response |-> Response(UpstreamStatus(out), FALSE, "throw", <<>>, <<>>)]

\* A lookup that answers with the metafield of any customer that has one.
CustomerMetafieldOfAnyone(st, ownerId) ==
  IF \E o \in DOMAIN st : st[o] # NoMetafield
  THEN st[CHOOSE o \in DOMAIN st : st[o] # NoMetafield]
  ELSE NoMetafield

\* What customer(id: $ownerId) { metafield(...) } returns: none for an unknown
\* customer and for a customer without the metafield.
CustomerMetafield(st, ownerId) ==
  IF ownerId \in DOMAIN st THEN st[ownerId] ELSE NoMetafield

\* GET /apps/customer/vehicles/get
GetHandler(st, customerId, outcome) ==
  IF Missing(customerId)
  THEN [calls |-> 0, ownerId |-> NoCustomerId,
        response |-> Response(400, FALSE, "customerId is required", <<>>, <<>>)]
  ELSE IF ~IsString(customerId)
  THEN [calls |-> 0, ownerId |-> NoCustomerId, response |-> Thrown]
  ELSE LET ownerId == CustomerGid(customerId)
           metafield == CustomerMetafield(st, ownerId)
           vehicles == IF metafield # NoMetafield THEN JSONparse(metafield.value) ELSE <<>>
       IN  CASE outcome = "ok" ->
                  [calls |-> 1, ownerId |-> ownerId,
                   response |-> Response(UpstreamStatus(outcome), TRUE, "", <<>>, vehicles)]
             [] outcome = "errors" ->
                  [calls |-> 1, ownerId |-> ownerId,
                   response |-> Response(UpstreamStatus(outcome), FALSE, "errors", <<>>, <<>>)]
             [] OTHER ->
                  [calls |-> 1, ownerId |-> ownerId,
                   response |-> Response(UpstreamStatus(outcome), FALSE, "throw", <<>>, <<>>)]

\* ========================================================= catalog picker
VARIABLES
  catalog,       \* this.allVehicles of the widget: the catalog as fetched
  searchBox,     \* this.searchBox.value
  filter,        \* the filter argument of the last renderVehicleList call
  vehicleList,   \* the items rendered in this.vehicleList (displayVehicles)
  countLine,     \* the 'Showing X of Y results' line: [shown, x, y]
  listShown      \* this.vehicleList.style.display is 'block'

filterVars == <<catalog, searchBox, filter, vehicleList, countLine, listShown>>

\* toLowerCase on the characters the catalog and the queries are written in.
ToLowerCaseChar(c) ==
  CASE c = "C" -> "c" [] c = "F" -> "f" [] c = "K" -> "k" [] c = "M" -> "m"
    [] c = "O" -> "o" [] c = "T" -> "t" [] c = "X" -> "x" [] OTHER -> c

\* A toLowerCase that leaves the text as it is.
ToLowerCaseNot(text) == text

ToLowerCase(text) == [i \in 1..Len(text) |-> ToLowerCaseChar(text[i])]

\* `${v.year}`: the decimal digits of a number.
RECURSIVE NumberText(_)
NumberText(n) ==
  IF n < 10 THEN <<ToString(n)>> ELSE NumberText(n \div 10) \o <<ToString(n % 10)>>

\* `${v.year} ${v.make} ${v.model} ${v.style || ''}`
SearchStr(v) ==
  NumberText(v.year) \o <<" ">> \o v.make \o <<" ">> \o v.model \o <<" ">> \o v.style

\* searchStr.includes(lowerFilter)
Includes(text, part) ==
  \E i \in 0..(Len(text) - Len(part)) : SubSeq(text, i + 1, i + Len(part)) = part

\* if (filter) vehicles = vehicles.filter(...): the empty filter keeps them all.
Filtered(vehicles, query) ==
  IF query # <<>>
  THEN SelectSeq(vehicles,
                 LAMBDA v : Includes(ToLowerCase(SearchStr(v)), ToLowerCase(query)))
  ELSE vehicles

\* A slice that stops one item early.
SliceOneShort(list, n) == SubSeq(list, 1, IF Len(list) < n - 1 THEN Len(list) ELSE n - 1)

\* vehicles.slice(0, n)
Slice(list, n) == SubSeq(list, 1, IF Len(list) < n THEN Len(list) ELSE n)

NoCountLine == [shown |-> FALSE, x |-> 0, y |-> 0]

\* if (filter && displayVehicles.length < vehicles.length) append the count line.
CountLine(query, displayVehicles, vehicles) ==
  IF query # <<>> /\ Len(displayVehicles) < Len(vehicles)
  THEN [shown |-> TRUE, x |-> Len(displayVehicles), y |-> Len(vehicles)]
  ELSE NoCountLine

\* renderVehicleList(query): what it leaves in the list element.
Rendered(query) ==
  LET vehicles == Filtered(catalog', query)
      displayVehicles == Slice(vehicles, Cap)
  IN  /\ filter' = query
      /\ vehicleList' = displayVehicles
      /\ countLine' = CountLine(query, displayVehicles, vehicles)
      /\ listShown' = TRUE

\* The kinds of records the catalog store holds: type (the category), year,
\* make, model and an optional style.
ItemKinds ==
  << [type |-> <<"C">>, year |-> 20, make |-> <<"F", "o">>, model |-> <<"M">>, style |-> <<>>],
     [type |-> <<"T">>, year |-> 21, make |-> <<"F", "O">>, model |-> <<"f", "1">>,
      style |-> <<"X">>],
     [type |-> <<"C">>, year |-> 7, make |-> <<"K">>, model |-> <<"o", "m">>,
      style |-> <<"c">>] >>

\* A catalog of n records, each with its own vehicle_id: the first records are
\* of the kinds the pattern lists, the others of the last of these kinds.
KindAt(pattern, i) == ItemKinds[pattern[IF i < Len(pattern) THEN i ELSE Len(pattern)]]
CatalogOf(pattern, n) ==
  [i \in 1..n |->
     [vehicle_id |-> ToString(i),
      type |-> KindAt(pattern, i).type,
      year |-> KindAt(pattern, i).year,
      make |-> KindAt(pattern, i).make,
      model |-> KindAt(pattern, i).model,
      style |-> KindAt(pattern, i).style]]

\* Small catalogs, and catalogs around the result cap.
CatalogSizes == (0..MaxSmallCatalog) \cup {Cap - 1, Cap, Cap + 1, Cap + 2}

\* One kind, two kinds, or a kind between two records of another.
Patterns ==
  {p \in SeqsUpTo(1..Len(ItemKinds), 3) \ {<<>>} : Len(p) = 3 => (p[1] = p[3] /\ p[1] # p[2])}

Catalogs == {CatalogOf(pattern, n) : pattern \in Patterns, n \in CatalogSizes}

\* What the user types in the search box.
Queries ==
  { <<>>, <<"m">>, <<"f", "o">>, <<"F", "O">>, <<"c">>, <<"o", " ", "m">>, <<"2">>, <<"z">> }

FilterInit ==
  /\ catalog = <<>>
  /\ searchBox = <<>>
  /\ filter = <<>>
  /\ vehicleList = <<>>
  /\ countLine = NoCountLine
  /\ listShown = FALSE

\* loadAllVehicles() resumes after its await with the list of the response:
\* this.allVehicles = data.vehicles || []; this.renderVehicleList().
LoadAllVehicles(vehicles) ==
  /\ catalog = <<>>
  /\ catalog' = vehicles
  /\ Rendered(<<>>)
  /\ UNCHANGED searchBox

\* The user edits the search box: handleSearch(value).
HandleSearch(value) ==
  /\ searchBox' = value
  /\ UNCHANGED catalog
  /\ Rendered(value)

FilterNext ==
  \/ \E vehicles \in Catalogs : LoadAllVehicles(vehicles)
  \/ \E value \in Queries : HandleSearch(value)

\* ================================================================== widget
VARIABLES
  myGarage,      \* this.myGarage: the Selection, a list of vehicles
  saveTimeout,   \* this.saveTimeout: handle of the last timer set, 0 for null
  isSaving,      \* this.isSaving
  garageBadge,   \* the badge: its text and whether it is marked active
  timers,        \* the setTimeout callbacks not yet run: [id, left]
  saveCalls,     \* save fetches not yet settled: [customerId, vehicles, status]
  loadCall,      \* the get fetch of loadCustomerGarage: [state, status, vehicles]
  store,         \* the remote profile store
  \* history, for the properties
  toggled,       \* a toggle has been applied
  sinceToggle,   \* ticks since the last toggle
  selAtToggle,   \* the Selection right after the last toggle
  burstSaves,    \* save calls issued since the last toggle: [vehicles, at]
  toggledOdd,    \* ids toggled an odd number of times while the Selection was only toggled
  unsavedToggle, \* a toggle was applied during a save and no save was issued since
  saveFailed,    \* some save call of the widget failed
  otherWrites,   \* writes of the customer's value by clients other than the widget
  lateLoad,      \* the load response was handled after a toggle
  recovery       \* "failed": the last save handled failed and no toggle followed;
                 \* "toggled": a toggle followed and no save was issued since;
                 \* "issued": that save is in flight; "recovered": it succeeded

widgetVars ==
  <<myGarage, saveTimeout, isSaving, garageBadge, timers, saveCalls, loadCall, store,
    toggled, sinceToggle, selAtToggle, burstSaves, toggledOdd, unsavedToggle,
    saveFailed, otherWrites, lateLoad, recovery>>

\* this.customerId = 'gid://shopify/Customer/123456'
customerId == Qualified("123456")

\* Response status of a fetch that has not been answered, and of one that failed
\* without a response (network error).
Pending == 0
NetworkError == 1

\* findIndex(v => v.vehicle_id === vehicle.vehicle_id): 0 when there is none.
FindIndex(list, vehicle) ==
  IF \E i \in 1..Len(list) : list[i].vehicle_id = vehicle.vehicle_id
  THEN CHOOSE i \in 1..Len(list) :
         /\ list[i].vehicle_id = vehicle.vehicle_id
         /\ \A j \in 1..(i - 1) : list[j].vehicle_id # vehicle.vehicle_id
  ELSE 0

\* splice(index, 1)
Splice(list, index) == SubSeq(list, 1, index - 1) \o SubSeq(list, index + 1, Len(list))

\* A toggle that always adds.
ToggledAlwaysPush(list, vehicle) == Append(list, vehicle)

\* The list after toggleVehicle(vehicle).
Toggled(list, vehicle) ==
  LET index == FindIndex(list, vehicle)
  IN  IF index > 0 THEN Splice(list, index) ELSE Append(list, vehicle)

\* A badge that stays marked active when the count is back to 0.
BadgeNeverCleared(list) == [text |-> Len(list), active |-> TRUE]

\* updateBadge()
Badge(list) == [text |-> Len(list), active |-> Len(list) > 0]

\* A handle no live timer and not this.saveTimeout carries.
FreshTimerId(ts, handle) ==
  CHOOSE i \in 1..(Cardinality(ts) + 2) : i # handle /\ \A t \in ts : t.id # i

\* A scheduleAutoSave that does not clear the pending timer.
ScheduledNoClear(ts, handle) ==
  ts \cup {[id |-> FreshTimerId(ts, handle), left |-> D]}

\* The timers after scheduleAutoSave(): the pending one is cleared, a new one set.
Scheduled(ts, handle) ==
  {t \in ts : t.id # handle} \cup {[id |-> FreshTimerId(ts, handle), left |-> D]}

\* An autoSaveGarage guard that never holds back.
MayIssueSaveUnguarded(saving) == TRUE

\* if (this.isSaving) return;
MayIssueSave(saving) == ~saving

\* A catch that arms the debounce timer again after a failed save.
TimersAfterSaveRetrying(ts, handle, status) ==
  IF status # 200 THEN ts \cup {[id |-> FreshTimerId(ts, handle), left |-> D]} ELSE ts

\* The timers after autoSaveGarage() has handled the response: neither the try,
\* the catch nor the finally arms or clears a debounce timer (the timers they set
\* only hide the save indicator).
TimersAfterSave(ts, handle, status) == ts

\* A body built from the Selection as it was when the timer was armed.
SnapshotAtArm(current, atArm) == atArm

\* body: JSON.stringify({ customerId, vehicles: this.myGarage }) in
\* autoSaveGarage(): the list as it is when the timer's callback runs.
Snapshot(current, atArm) == current

\* A flag that only the success path clears.
IsSavingAfterSaveFailureStuck(status) == status # 200

\* finally { this.isSaving = false; }: after the try as after the catch.
IsSavingAfterSave(status) == FALSE

\* The list of calls without its i-th.
RemoveAt(calls, i) == SubSeq(calls, 1, i - 1) \o SubSeq(calls, i + 1, Len(calls))

SymDiff(S, x) == IF x \in S THEN S \ {x} ELSE S \cup {x}

\* Lists without two entries of one identifier.
DedupLists == {l \in SeqsUpTo(Vehicles, NumVehicles) : NoDuplicates(l)}

\* The store as an earlier session of the widget may have left it.
InitialStores ==
  {EmptyStore} \cup
  {MetafieldsSet(EmptyStore, SaveVariables(customerId, l)) : l \in DedupLists}

\* constructor() and init(): the fields, and loadCustomerGarage() has sent its fetch.
WidgetInit ==
  /\ myGarage = <<>>
  /\ saveTimeout = 0
  /\ isSaving = FALSE
  /\ garageBadge = Badge(<<>>)
  /\ timers = {}
  /\ saveCalls = <<>>
  /\ loadCall = [state |-> "sent", status |-> Pending, vehicles |-> <<>>]
  /\ store \in InitialStores
  /\ toggled = FALSE
  /\ sinceToggle = 0
  /\ selAtToggle = <<>>
  /\ burstSaves = <<>>
  /\ toggledOdd = {}
  /\ unsavedToggle = FALSE
  /\ saveFailed = FALSE
  /\ otherWrites = 0
  /\ lateLoad = FALSE
  /\ recovery = "none"

\* toggleVehicle(vehicle): splice or push, renderMyGarage() (which updates the
\* badge), renderVehicleList(this.searchBox.value), scheduleAutoSave().
Toggle(vehicle) ==
  /\ myGarage' = Toggled(myGarage, vehicle)
  /\ garageBadge' = Badge(myGarage')
  /\ timers' = Scheduled(timers, saveTimeout)
  /\ saveTimeout' = FreshTimerId(timers, saveTimeout)
  /\ toggled' = TRUE
  /\ sinceToggle' = 0
  /\ selAtToggle' = myGarage'
  /\ burstSaves' = <<>>
  /\ toggledOdd' = IF loadCall.state = "done" THEN toggledOdd
                   ELSE SymDiff(toggledOdd, vehicle.vehicle_id)
  /\ unsavedToggle' = (unsavedToggle \/ saveCalls # <<>>)
  /\ recovery' = IF recovery \in {"failed", "toggled"} THEN "toggled" ELSE "none"
  /\ UNCHANGED <<isSaving, saveCalls, loadCall, store, saveFailed, otherWrites, lateLoad,
                 catalog, searchBox>>
  /\ Rendered(searchBox)

\* One tick passes: every pending timer comes one tick closer. A timer that is
\* due runs before more time passes.
Tick ==
  /\ timers # {}
  /\ \A t \in timers : t.left > 0
  /\ timers' = {[t EXCEPT !.left = @ - 1] : t \in timers}
  /\ sinceToggle' = IF sinceToggle > D THEN sinceToggle ELSE sinceToggle + 1
  /\ UNCHANGED <<myGarage, saveTimeout, isSaving, garageBadge, saveCalls, loadCall, store,
                 toggled, selAtToggle, burstSaves, toggledOdd, unsavedToggle,
                 saveFailed, otherWrites, lateLoad>>
  /\ UNCHANGED <<filterVars, recovery>>

\* The debounce timer runs autoSaveGarage() up to its await: the fire is dropped
\* while a save is in flight, else isSaving is set and the fetch is sent with the
\* Selection as it is now.
TimerFire(t) ==
  /\ t \in timers
  /\ t.left = 0
  /\ timers' = timers \ {t}
  /\ IF MayIssueSave(isSaving)
     THEN /\ isSaving' = TRUE
          /\ saveCalls' = Append(saveCalls, [customerId |-> customerId,
                                             vehicles |-> JSONstringify(Snapshot(myGarage, selAtToggle)),
                                             status |-> Pending])
          /\ burstSaves' = Append(burstSaves, [vehicles |-> myGarage, at |-> sinceToggle])
          /\ unsavedToggle' = FALSE
          /\ recovery' = IF recovery = "toggled" THEN "issued" ELSE recovery
     ELSE UNCHANGED <<isSaving, saveCalls, burstSaves, unsavedToggle, recovery>>
  /\ UNCHANGED <<myGarage, saveTimeout, garageBadge, loadCall, store, toggled, sinceToggle,
                 selAtToggle, toggledOdd, saveFailed, otherWrites, lateLoad>>
  /\ UNCHANGED filterVars

\* The gateway handles the i-th save request and the store answers.
SaveServe(i, outcome) ==
  /\ i \in 1..Len(saveCalls)
  /\ saveCalls[i].status = Pending
  /\ LET r == SaveHandler(store,
                          SaveBody(saveCalls[i].customerId, "array",
                                   JSONparse(saveCalls[i].vehicles)),
                          outcome)
     IN  /\ store' = r.store
         /\ saveCalls' = [saveCalls EXCEPT ![i].status = r.response.status]
  /\ UNCHANGED <<myGarage, saveTimeout, isSaving, garageBadge, timers, loadCall,
                 toggled, sinceToggle, selAtToggle, burstSaves, toggledOdd, unsavedToggle,
                 saveFailed, otherWrites, lateLoad>>
  /\ UNCHANGED <<filterVars, recovery>>

\* The i-th save fetch fails without reaching the gateway.
SaveNetworkError(i) ==
  /\ i \in 1..Len(saveCalls)
  /\ saveCalls[i].status = Pending
  /\ saveCalls' = [saveCalls EXCEPT ![i].status = NetworkError]
  /\ UNCHANGED <<myGarage, saveTimeout, isSaving, garageBadge, timers, loadCall, store,
                 toggled, sinceToggle, selAtToggle, burstSaves, toggledOdd, unsavedToggle,
                 saveFailed, otherWrites, lateLoad>>
  /\ UNCHANGED <<filterVars, recovery>>

\* autoSaveGarage() resumes after its await: try or catch, then finally.
SaveHandle(i) ==
  /\ i \in 1..Len(saveCalls)
  /\ saveCalls[i].status # Pending
  /\ isSaving' = IsSavingAfterSave(saveCalls[i].status)
  /\ saveCalls' = RemoveAt(saveCalls, i)
  /\ saveFailed' = (saveFailed \/ saveCalls[i].status # 200)
  /\ timers' = TimersAfterSave(timers, saveTimeout, saveCalls[i].status)
  /\ recovery' = IF recovery = "toggled" THEN "toggled"
                 ELSE IF saveCalls[i].status # 200 THEN "failed"
                 ELSE IF recovery = "issued" THEN "recovered"
                 ELSE "none"
  /\ UNCHANGED <<myGarage, saveTimeout, garageBadge, loadCall, store,
                 toggled, sinceToggle, selAtToggle, burstSaves, toggledOdd, unsavedToggle,
                 otherWrites, lateLoad>>
  /\ UNCHANGED filterVars

\* The gateway handles the get request of loadCustomerGarage().
LoadServe(outcome) ==
  /\ loadCall.state = "sent"
  /\ LET r == GetHandler(store, customerId, outcome)
     IN  loadCall' = [state |-> "responded", status |-> r.response.status,
                      vehicles |-> JSONstringify(r.response.vehicles)]
  /\ UNCHANGED <<myGarage, saveTimeout, isSaving, garageBadge, timers, saveCalls, store,
                 toggled, sinceToggle, selAtToggle, burstSaves, toggledOdd, unsavedToggle,
                 saveFailed, otherWrites, lateLoad>>
  /\ UNCHANGED <<filterVars, recovery>>

\* The get fetch fails without a response.
LoadNetworkError ==
  /\ loadCall.state = "sent"
  /\ loadCall' = [state |-> "responded", status |-> NetworkError, vehicles |-> <<>>]
  /\ UNCHANGED <<myGarage, saveTimeout, isSaving, garageBadge, timers, saveCalls, store,
                 toggled, sinceToggle, selAtToggle, burstSaves, toggledOdd, unsavedToggle,
                 saveFailed, otherWrites, lateLoad>>
  /\ UNCHANGED <<filterVars, recovery>>

\* loadCustomerGarage() resumes after its await: the Selection becomes the list
\* of the response, or the empty list in the catch; updateBadge().
LoadHandle ==
  /\ loadCall.state = "responded"
  /\ myGarage' = IF loadCall.status = 200 THEN JSONparse(loadCall.vehicles) ELSE <<>>
  /\ garageBadge' = Badge(myGarage')
  /\ loadCall' = [loadCall EXCEPT !.state = "done"]
  /\ lateLoad' = toggled
  /\ toggledOdd' = {}
  /\ UNCHANGED <<saveTimeout, isSaving, timers, saveCalls, store,
                 toggled, sinceToggle, selAtToggle, burstSaves, unsavedToggle,
                 saveFailed, otherWrites>>
  /\ UNCHANGED <<filterVars, recovery>>

\* Another client posts a list for the same customer to the gateway.
ApiSave(id, vehicles) ==
  /\ otherWrites < MaxOtherWrites
  /\ store' = SaveHandler(store, SaveBody(id, "array", vehicles), "ok").store
  /\ otherWrites' = otherWrites + 1
  /\ UNCHANGED <<myGarage, saveTimeout, isSaving, garageBadge, timers, saveCalls, loadCall,
                 toggled, sinceToggle, selAtToggle, burstSaves, toggledOdd, unsavedToggle,
                 saveFailed, lateLoad>>
  /\ UNCHANGED <<filterVars, recovery>>

WidgetNext ==
  \/ \E vehicle \in Vehicles : Toggle(vehicle)
  \/ Tick
  \/ \E t \in timers : TimerFire(t)
  \/ \E i \in 1..Len(saveCalls), outcome \in Outcomes : SaveServe(i, outcome)
  \/ \E i \in 1..Len(saveCalls) : SaveNetworkError(i)
  \/ \E i \in 1..Len(saveCalls) : SaveHandle(i)
  \/ \E outcome \in ReadOutcomes : LoadServe(outcome)
  \/ LoadNetworkError
  \/ LoadHandle
  \/ \E vehicles \in SeqsUpTo(Vehicles, MaxList) : ApiSave(Bare("123456"), vehicles)


\* ============================================================ picker modal
\* openModal() and closeModalFn(): the catalog is fetched when the picker is
\* opened while this.allVehicles is empty.
VARIABLES
  modalActive,   \* this.modalOverlay carries the class 'active'
  listCalls,     \* catalog list fetches not yet settled: [status, vehicles]
  listRequests,  \* history: catalog list requests issued
  opens          \* history: times the picker was opened

modalVars == <<modalActive, listCalls, listRequests, opens>>

\* The catalogs the gateway's list endpoint returns to the widget.
SmallCatalogs == {CatalogOf(<<1, 2>>, n) : n \in 0..MaxSmallCatalog}

\* What a list fetch settles with: the gateway's success response with a
\* catalog, its 400 or 500, or no response at all.
ListAnswers ==
  {[status |-> 200, vehicles |-> c] : c \in SmallCatalogs}
    \cup {[status |-> s, vehicles |-> <<>>] : s \in {400, 500, NetworkError}}

ModalInit ==
  /\ modalActive = FALSE
  /\ listCalls = <<>>
  /\ listRequests = 0
  /\ opens = 0

\* if (this.allVehicles.length === 0)
NeedsCatalog(vehicles) == Len(vehicles) = 0

\* The user clicks the garage icon: openModal() up to its await. When the
\* catalog is empty loadAllVehicles() hides the list and sends the fetch.
OpenModal ==
  /\ opens < MaxOpens
  /\ ~modalActive
  /\ opens' = opens + 1
  /\ modalActive' = TRUE
  /\ IF NeedsCatalog(catalog)
     THEN /\ listCalls' = Append(listCalls, [status |-> Pending, vehicles |-> <<>>])
          /\ listRequests' = listRequests + 1
          /\ listShown' = FALSE
     ELSE UNCHANGED <<listCalls, listRequests, listShown>>
  /\ UNCHANGED <<catalog, searchBox, filter, vehicleList, countLine>>

\* The user closes the picker: closeModalFn().
CloseModalFn ==
  /\ modalActive
  /\ modalActive' = FALSE
  /\ UNCHANGED <<listCalls, listRequests, opens, filterVars>>

\* The i-th list fetch settles.
ListServe(i, answer) ==
  /\ i \in 1..Len(listCalls)
  /\ listCalls[i].status = Pending
  /\ listCalls' = [listCalls EXCEPT ![i] = answer]
  /\ UNCHANGED <<modalActive, listRequests, opens, filterVars>>

\* loadAllVehicles() resumes after its await: the catalog of the response is kept
\* and rendered, or the catch shows the error and keeps the list hidden.
ListHandle(i) ==
  /\ i \in 1..Len(listCalls)
  /\ listCalls[i].status # Pending
  /\ listCalls' = RemoveAt(listCalls, i)
  /\ IF listCalls[i].status = 200
     THEN /\ catalog' = listCalls[i].vehicles
          /\ UNCHANGED searchBox
          /\ Rendered(<<>>)
     ELSE UNCHANGED filterVars
  /\ UNCHANGED <<modalActive, listRequests, opens>>

ModalNext ==
  \/ OpenModal
  \/ CloseModalFn
  \/ \E i \in 1..Len(listCalls), answer \in ListAnswers : ListServe(i, answer)
  \/ \E i \in 1..Len(listCalls) : ListHandle(i)

\* ========================================================= gateway clients
VARIABLES
  lastCall,      \* the last request the gateway answered, with the store's answer
                 \* to the call it made (if any) and its response
  sequel         \* how that request follows the successful save right before it

gatewayVars == <<lastCall, sequel>>

NoCall ==
  [op |-> "none", customerId |-> NoCustomerId, vehiclesKind |-> "missing",
   vehicles |-> <<>>, ownerId |-> NoCustomerId, calls |-> 0, answer |-> "none",
   response |-> Response(0, FALSE, "", <<>>, <<>>)]

GatewayIdle ==
  /\ lastCall = NoCall
  /\ sequel = "none"

\* The number of a customer the store does not know.
UnknownCustomerNumber == "404"

\* The customerId values a client sends: none, bare and qualified, and the id of
\* a customer that does not exist.
RequestCustomerIds ==
  {NoCustomerId} \cup {Bare(n) : n \in CustomerNumbers} \cup StoreOwners
    \cup {Bare(UnknownCustomerNumber)}

\* The vehicles lists a client sends.
RequestLists == SeqsUpTo(Vehicles, MaxList)

Succeeded(call, op) == call.op = op /\ call.response.status = 200

\* The same customer number, written in the other of its two forms.
OtherForm(id1, id2) ==
  \E n \in CustomerNumbers : {id1, id2} = {Bare(n), Qualified(n)}

\* A client posts to /apps/customer/vehicles/save and gets the response.
SaveSelection(id, kind, vehicles, outcome, uncaught) ==
  LET r == SaveHandler(store, SaveBody(id, kind, vehicles), outcome)
  IN  /\ store' = r.store
      /\ lastCall' = [op |-> "save", customerId |-> id, vehiclesKind |-> kind,
                      vehicles |-> vehicles, ownerId |-> r.ownerId, calls |-> r.calls,
                      answer |-> IF r.calls = 0 THEN "none"
                                 ELSE WriteOutcome(store, r.ownerId, outcome),
                      response |-> Delivered(r.response, uncaught)]
      /\ sequel' = IF /\ Succeeded(lastCall, "save") /\ r.response.status = 200
                      /\ lastCall.customerId = id /\ lastCall.vehicles = vehicles
                   THEN "repeat" ELSE "none"

\* A client gets /apps/customer/vehicles/get?customerId= and gets the response.
GetSelection(id, outcome, uncaught) ==
  LET r == GetHandler(store, id, outcome)
  IN  /\ lastCall' = [op |-> "get", customerId |-> id, vehiclesKind |-> "missing",
                      vehicles |-> <<>>, ownerId |-> r.ownerId, calls |-> r.calls,
                      answer |-> IF r.calls = 0 THEN "none" ELSE outcome,
                      response |-> Delivered(r.response, uncaught)]
      /\ sequel' = IF Succeeded(lastCall, "save") /\ r.response.status = 200
                   THEN IF lastCall.customerId = id THEN "readback"
                        ELSE IF OtherForm(lastCall.customerId, id) THEN "crossform"
                        ELSE "none"
                   ELSE "none"
      /\ UNCHANGED store

\* The customerId values that are no strings.
NonStringCustomerIds == {NonString(n) : n \in CustomerNumbers}

GatewayNext ==
  \/ \E id \in RequestCustomerIds, vehicles \in RequestLists, outcome \in Outcomes :
       SaveSelection(id, "array", vehicles, outcome, "no response")
  \/ \E id \in RequestCustomerIds \cup NonStringCustomerIds, kind \in VehiclesKinds \ {"array"} :
       SaveSelection(id, kind, <<>>, "ok", "no response")
  \/ \E id \in NonStringCustomerIds, vehicles \in RequestLists, uncaught \in UncaughtOutcomes :
       SaveSelection(id, "array", vehicles, "ok", uncaught)
  \/ \E id \in RequestCustomerIds, outcome \in ReadOutcomes :
       GetSelection(id, outcome, "no response")
  \/ \E id \in NonStringCustomerIds, uncaught \in UncaughtOutcomes :
       GetSelection(id, "ok", uncaught)

\* ==================================================== overlapping requests
\* The save handler awaits the store between building its mutation and sending
\* its response, so requests overlap: the store applies their mutations one at a
\* time, in any order.
VARIABLES
  pendingSaves,  \* save requests whose fetch the store has not answered: [n, body]
  received,      \* save requests received so far
  applyLog       \* history: the mutations the store applied, in order: [n, ownerId, vehicles]

concurrentVars == <<pendingSaves, received, applyLog>>

NoOverlap ==
  /\ pendingSaves = {}
  /\ received = 0
  /\ applyLog = <<>>

\* The customerId values of the overlapping requests: both forms of one
\* customer, and another customer.
OverlapCustomerIds == {Bare("123456"), Qualified("123456"), Bare("789")}

\* The handler validates the request, builds its variables and sends the fetch.
SaveReceive(id, vehicles) ==
  /\ received < MaxSaveRequests
  /\ received' = received + 1
  /\ pendingSaves' = pendingSaves \cup {[n |-> received', body |-> SaveBody(id, "array", vehicles)]}
  /\ UNCHANGED <<store, applyLog>>

\* The store answers the fetch of one pending request (applying its mutation if
\* it accepts it) and the handler sends its response.
StoreAnswer(p, outcome) ==
  /\ p \in pendingSaves
  /\ LET r == SaveHandler(store, p.body, outcome)
     IN  /\ store' = r.store
         /\ applyLog' = IF r.response.status = 200
                        THEN Append(applyLog, [n |-> p.n, ownerId |-> r.ownerId,
                                               vehicles |-> p.body.vehicles])
                        ELSE applyLog
  /\ pendingSaves' = pendingSaves \ {p}
  /\ UNCHANGED received

ConcurrentNext ==
  \/ \E id \in OverlapCustomerIds, vehicles \in RequestLists : SaveReceive(id, vehicles)
  \/ \E p \in pendingSaves, outcome \in Outcomes : StoreAnswer(p, outcome)

\* ============================================================ listCatalog
VARIABLES
  listState,     \* GET /apps/vehicles/list: "running" its loop, or "responded"
  allVehicles,   \* const allVehicles = []
  hasNextPage,   \* let hasNextPage = true
  cursor,        \* let cursor = null: 0, else the endCursor of the last page
  pageCount,     \* let pageCount = 0
  listResponse,  \* the response sent: [status, success, count, vehicles]
  pageRequests,  \* history: page requests sent to the store
  pagesFetched   \* history: the nodes of every page the store returned

listVars ==
  <<listState, allVehicles, hasNextPage, cursor, pageCount, listResponse,
    pageRequests, pagesFetched>>

\* The year texts the store holds: digits, digits then letters, letters, empty.
YearTexts == << <<"2", "0">>, <<"7", "x">>, <<"x">>, <<>> >>

DigitValue(c) ==
  CASE c = "0" -> 0 [] c = "1" -> 1 [] c = "2" -> 2 [] c = "3" -> 3 [] c = "4" -> 4
    [] c = "5" -> 5 [] c = "6" -> 6 [] c = "7" -> 7 [] c = "8" -> 8 [] c = "9" -> 9
    [] OTHER -> -1

\* parseInt(text): the number its leading digits spell, NaN when it has none.
RECURSIVE LeadingNumber(_, _)
LeadingNumber(text, acc) ==
  IF text = <<>> \/ DigitValue(Head(text)) < 0 THEN acc
  ELSE LeadingNumber(Tail(text), 10 * acc + DigitValue(Head(text)))

ParseInt(text) ==
  IF text = <<>> \/ DigitValue(Head(text)) < 0
  THEN [kind |-> "NaN", n |-> 0, text |-> <<>>]
  ELSE [kind |-> "number", n |-> LeadingNumber(text, 0), text |-> <<>>]

\* The i-th record of the page after cursor c, as the store returns it.
Node(c, i) ==
  [id |-> <<"gid://shopify/Metaobject/", c, i>>, handle |-> <<"vehicle", c, i>>,
   year |-> YearTexts[((c + i) % Len(YearTexts)) + 1], vehicle_id |-> <<c, i>>]

\* The pages the store may return after cursor c: 0..MaxNodes records.
Pages(c) == {[i \in 1..k |-> Node(c, i)] : k \in 0..MaxNodes}

\* const vehicle = { gid, handle, ...fields }; if (vehicle.year) parseInt
TransformNode(node) ==
  [gid |-> node.id, handle |-> node.handle, vehicle_id |-> node.vehicle_id,
   year |-> IF node.year # <<>> THEN ParseInt(node.year)
            ELSE [kind |-> "string", n |-> 0, text |-> node.year]]

TransformNodes(nodes) == [i \in 1..Len(nodes) |-> TransformNode(nodes[i])]

\* A loop that puts each page in front of the ones before.
PushedInFront(vehicles, nodes) == TransformNodes(nodes) \o vehicles

\* for (const node of metaobjects.nodes) { ...; allVehicles.push(vehicle) }
Pushed(vehicles, nodes) == vehicles \o TransformNodes(nodes)

\* A loop without its safety limit.
LoopContinuesUnlimited(more, count) == more

\* while (hasNextPage && pageCount < 10)
LoopContinues(more, count) == more /\ count < MaxPages

NoListResponse ==
  [status |-> 0, success |-> FALSE, error |-> "", count |-> 0, vehicles |-> <<>>]

\* An error path that answers every failure with status 500.
ListErrorResponseAlways500(outcome) ==
  [status |-> 500, success |-> FALSE, error |-> outcome, count |-> 0, vehicles |-> <<>>]

\* res.status(400).json({ error, errors }) for GraphQL errors, and
\* res.status(500).json({ error }) in the catch: no success, no vehicles.
ListErrorResponse(outcome) ==
  [status |-> IF outcome = "errors" THEN 400 ELSE 500,
   success |-> FALSE, error |-> outcome, count |-> 0, vehicles |-> <<>>]

ListInit ==
  /\ listState = "running"
  /\ allVehicles = <<>>
  /\ hasNextPage = TRUE
  /\ cursor = 0
  /\ pageCount = 0
  /\ listResponse = NoListResponse
  /\ pageRequests = 0
  /\ pagesFetched = <<>>

\* One pass of the loop whose page request the store answers with a page.
FetchPage(nodes, more) ==
  /\ listState = "running"
  /\ LoopContinues(hasNextPage, pageCount)
  /\ pageCount' = pageCount + 1
  /\ pageRequests' = pageRequests + 1
  /\ allVehicles' = Pushed(allVehicles, nodes)
  /\ hasNextPage' = more
  /\ cursor' = cursor + 1
  /\ pagesFetched' = Append(pagesFetched, nodes)
  /\ UNCHANGED <<listState, listResponse>>

\* One pass of the loop whose page request fails: GraphQL errors give 400, a
\* thrown error gives 500 from the catch.
FetchPageFails(outcome) ==
  /\ listState = "running"
  /\ LoopContinues(hasNextPage, pageCount)
  /\ pageCount' = pageCount + 1
  /\ pageRequests' = pageRequests + 1
  /\ listResponse' = ListErrorResponse(outcome)
  /\ listState' = "responded"
  /\ UNCHANGED <<allVehicles, hasNextPage, cursor, pagesFetched>>

\* The loop is left and res.json({ success, count, vehicles }) is sent.
ListRespond ==
  /\ listState = "running"
  /\ ~LoopContinues(hasNextPage, pageCount)
  /\ listResponse' = [status |-> 200, success |-> TRUE, error |-> "",
                      count |-> Len(allVehicles), vehicles |-> allVehicles]
  /\ listState' = "responded"
  /\ UNCHANGED <<allVehicles, hasNextPage, cursor, pageCount, pageRequests, pagesFetched>>

ListNext ==
  \/ \E nodes \in Pages(cursor), more \in BOOLEAN : FetchPage(nodes, more)
  \/ \E outcome \in {"errors", "throw"} : FetchPageFails(outcome)
  \/ ListRespond

\* ================================================================ importer
\* importVehicles(vehicles) of the import script: one bulk-create mutation for
\* each batch of the parsed vehicles, sent one after the other.
VARIABLES
  parsed,        \* the vehicles argument: the parsed rows, here their row numbers
  loopI,         \* let i of the for loop
  importPc,      \* "loop": at the loop test; "await": a mutation is in flight;
                 \* "delay": in the rate-limit timeout; "done": the loop is left
  successCount,  \* let successCount
  errorCount,    \* let errorCount
  clock,         \* ms since importVehicles was called
  mutations,     \* history: the mutations sent: [batch, at, outcome]
  waits          \* history: rate-limit timeouts that elapsed

importVars ==
  <<parsed, loopI, importPc, successCount, errorCount, clock, mutations, waits>>

\* How a bulk-create request ends: created, answered with userErrors, or thrown
\* (no response, GraphQL errors, or a response without data).
BatchOutcomes == {"ok", "userErrors", "throw"}

\* ms a request takes until its answer or its error.
Latencies == {1, 100}

\* A slice that takes one vehicle too many.
BatchOfOneMore(vehicles, index) ==
  SubSeq(vehicles, index + 1,
         IF Len(vehicles) < index + BATCH_SIZE + 1 THEN Len(vehicles)
         ELSE index + BATCH_SIZE + 1)

\* vehicles.slice(i, i + BATCH_SIZE)
BatchOf(vehicles, index) ==
  SubSeq(vehicles, index + 1,
         IF Len(vehicles) < index + BATCH_SIZE THEN Len(vehicles) ELSE index + BATCH_SIZE)

ImportInit ==
  /\ parsed \in {[k \in 1..n |-> k] : n \in 0..MaxParsed}
  /\ loopI = 0
  /\ importPc = "loop"
  /\ successCount = 0
  /\ errorCount = 0
  /\ clock = 0
  /\ mutations = <<>>
  /\ waits = 0

\* i < vehicles.length: the batch is sliced, its mutation built and sent.
SendBatch ==
  /\ importPc = "loop"
  /\ loopI < Len(parsed)
  /\ mutations' = Append(mutations, [batch |-> BatchOf(parsed, loopI), at |-> clock,
                                     outcome |-> "pending"])
  /\ importPc' = "await"
  /\ UNCHANGED <<parsed, loopI, successCount, errorCount, clock, waits>>

\* The request ends. In the try, the counts are updated and the timeout is
\* awaited when another batch follows; a thrown error goes to the catch, and the
\* loop goes on with i += BATCH_SIZE.
BatchAnswer(outcome, latency) ==
  /\ importPc = "await"
  /\ clock' = clock + latency
  /\ mutations' = [mutations EXCEPT ![Len(mutations)].outcome = outcome]
  /\ successCount' = IF outcome = "ok"
                     THEN successCount + Len(mutations[Len(mutations)].batch)
                     ELSE successCount
  /\ errorCount' = IF outcome = "ok" THEN errorCount
                   ELSE errorCount + Len(mutations[Len(mutations)].batch)
  /\ IF outcome # "throw" /\ loopI + BATCH_SIZE < Len(parsed)
     THEN /\ importPc' = "delay"
          /\ UNCHANGED loopI
     ELSE /\ importPc' = "loop"
          /\ loopI' = loopI + BATCH_SIZE
  /\ UNCHANGED <<parsed, waits>>

\* await new Promise(resolve => setTimeout(resolve, 500)), then i += BATCH_SIZE.
DelayElapses ==
  /\ importPc = "delay"
  /\ clock' = clock + RateLimitMs
  /\ waits' = waits + 1
  /\ importPc' = "loop"
  /\ loopI' = loopI + BATCH_SIZE
  /\ UNCHANGED <<parsed, successCount, errorCount, mutations>>

\* The loop test fails: the summary is printed.
ImportSummary ==
  /\ importPc = "loop"
  /\ ~(loopI < Len(parsed))
  /\ importPc' = "done"
  /\ UNCHANGED <<parsed, loopI, successCount, errorCount, clock, mutations, waits>>

ImportNext ==
  \/ SendBatch
  \/ \E outcome \in BatchOutcomes, latency \in Latencies : BatchAnswer(outcome, latency)
  \/ DelayElapses
  \/ ImportSummary

\* ========================================================== specifications
widgetOnlyVars ==
  <<myGarage, saveTimeout, isSaving, garageBadge, timers, saveCalls, loadCall,
    toggled, sinceToggle, selAtToggle, burstSaves, toggledOdd, unsavedToggle,
    saveFailed, otherWrites, lateLoad, recovery>>

vars ==
  <<widgetVars, filterVars, gatewayVars, listVars, concurrentVars, modalVars, importVars>>

\* The importer given nothing to import.
ImportIdle == ImportInit /\ parsed = <<>>

\* The widget, the gateway serving it and the store.
Init ==
  /\ WidgetInit /\ FilterInit /\ GatewayIdle /\ ListInit /\ NoOverlap
  /\ ModalInit /\ ImportIdle
Next ==
  WidgetNext /\ UNCHANGED <<gatewayVars, listVars, concurrentVars, modalVars, importVars>>
Spec == Init /\ [][Next]_vars

\* Clients calling the gateway's save and get, one request at a time.
InitGateway ==
  /\ WidgetInit /\ store = EmptyStore /\ FilterInit /\ GatewayIdle /\ ListInit /\ NoOverlap
  /\ ModalInit /\ ImportIdle
NextGateway ==
  /\ GatewayNext
  /\ UNCHANGED <<widgetOnlyVars, filterVars, listVars, concurrentVars, modalVars, importVars>>
SpecGateway == InitGateway /\ [][NextGateway]_vars

\* One request to the gateway's list endpoint.
InitList ==
  /\ WidgetInit /\ store = EmptyStore /\ FilterInit /\ GatewayIdle /\ ListInit /\ NoOverlap
  /\ ModalInit /\ ImportIdle
NextList ==
  /\ ListNext
  /\ UNCHANGED <<widgetVars, filterVars, gatewayVars, concurrentVars, modalVars, importVars>>
SpecList == InitList /\ [][NextList]_vars

\* Save requests to the gateway that overlap in time.
InitConcurrent ==
  /\ WidgetInit /\ store = EmptyStore /\ FilterInit /\ GatewayIdle /\ ListInit /\ NoOverlap
  /\ ModalInit /\ ImportIdle
NextConcurrent ==
  /\ ConcurrentNext
  /\ UNCHANGED <<widgetOnlyVars, filterVars, gatewayVars, listVars, modalVars, importVars>>
SpecConcurrent == InitConcurrent /\ [][NextConcurrent]_vars

\* The picker: the catalog arrives and the user types in the search box.
InitFilter ==
  /\ WidgetInit /\ store = EmptyStore /\ FilterInit /\ GatewayIdle /\ ListInit /\ NoOverlap
  /\ ModalInit /\ ImportIdle
NextFilter ==
  /\ FilterNext
  /\ UNCHANGED <<widgetVars, gatewayVars, listVars, concurrentVars, modalVars, importVars>>
SpecFilter == InitFilter /\ [][NextFilter]_vars

\* The picker is opened and closed while its catalog fetches settle.
InitModal ==
  /\ WidgetInit /\ store = EmptyStore /\ FilterInit /\ GatewayIdle /\ ListInit /\ NoOverlap
  /\ ModalInit /\ ImportIdle
NextModal ==
  /\ ModalNext
  /\ UNCHANGED <<widgetVars, gatewayVars, listVars, concurrentVars, importVars>>
SpecModal == InitModal /\ [][NextModal]_vars

\* One run of the import script's importVehicles.
InitImport ==
  /\ WidgetInit /\ store = EmptyStore /\ FilterInit /\ GatewayIdle /\ ListInit /\ NoOverlap
  /\ ModalInit /\ ImportInit
NextImport ==
  /\ ImportNext
  /\ UNCHANGED <<widgetVars, filterVars, gatewayVars, listVars, concurrentVars, modalVars>>
SpecImport == InitImport /\ [][NextImport]_vars

\* ------------------------------------------------------ widget properties
\* What getSelection returns for the widget's customer when the store answers.
RemoteSelection == GetHandler(store, customerId, "ok").response.vehicles

\* No debounce timer is armed and no save call is outstanding.
NoSavePending == timers = {} /\ saveCalls = <<>>

\* C1: a burst of toggles, each less than D after the one before, produces
\* exactly one save call, issued D after the last toggle of the burst, whose
\* payload is the Selection as it was right after that toggle: no call while
\* the timer of the burst is pending, and once it has run exactly one. The
\* bursts looked at are those after the initial load was handled.
C1_DebounceCoalescing ==
  (toggled /\ ~lateLoad) =>
    IF timers # {}
    THEN burstSaves = <<>>
    ELSE /\ Len(burstSaves) = 1
         /\ burstSaves[1].at = D
         /\ burstSaves[1].vehicles = selAtToggle

\* C2: at most one save network call is outstanding in every reachable state.
C2_SingleFlight == Len(saveCalls) <= 1

\* A debounce fire was dropped while the one save call was outstanding.
C2_Witness == Len(saveCalls) = 1 /\ unsavedToggle /\ timers = {}

\* C3: a toggle applied while a save call is in flight is followed by a second
\* save call: once nothing is pending any more (no timer armed, no call
\* outstanding) no such toggle is left without a save call issued after it.
C3_ToggleDuringSaveIsSaved == NoSavePending => ~unsavedToggle

\* C4: with the widget as the only writer and every save call succeeding,
\* whenever the widget is quiescent (load finished, no timer armed, no save in
\* flight) the remote value for the customer equals the widget's Selection.
\* The states looked at are those where the load succeeded before any toggle.
C4_EventuallyConsistentMirror ==
  (/\ loadCall.state = "done" /\ loadCall.status = 200 /\ ~lateLoad
   /\ NoSavePending /\ ~saveFailed /\ otherWrites = 0)
    => RemoteSelection = myGarage

\* C5: after any sequence of toggles applied to the initially empty Selection,
\* the identifiers present are exactly those toggled an odd number of times.
C5_ToggleParity == loadCall.state # "done" => Ids(myGarage) = toggledOdd

\* Toggles were applied and every identifier was toggled an even number of times.
C5_Witness == toggled /\ loadCall.state # "done" /\ toggledOdd = {} /\ myGarage = <<>>

\* C6: after the initial load and any toggles and saves, the Selection holds no
\* two entries with the same identifier.
C6_NoDuplicateIdentifiers == loadCall.state = "done" => NoDuplicates(myGarage)

\* The save call that was outstanding failed and autoSaveGarage() handles it.
FailureHandled ==
  /\ Len(saveCalls) = 1
  /\ saveCalls[1].status \notin {Pending, 200}
  /\ saveCalls' = <<>>

C20_RecoveryAfterFailedSave ==
  /\ recovery = "toggled" => timers # {}
  /\ (recovery = "issued" /\ ~lateLoad) =>
        /\ Len(burstSaves) = 1
        /\ burstSaves[1].at = D
        /\ burstSaves[1].vehicles = selAtToggle
  /\ (recovery = "recovered" /\ otherWrites = 0 /\ ~lateLoad) => RemoteSelection = myGarage

\* ------------------------------------------------------ picker properties
\* Two characters are the same letter, whatever their case.
CasePairs ==
  {{"C", "c"}, {"F", "f"}, {"K", "k"}, {"M", "m"}, {"O", "o"}, {"T", "t"}, {"X", "x"}}
SameLetter(c, d) == c = d \/ {c, d} \in CasePairs

\* The text contains the query, case-insensitively.
ContainsIgnoringCase(text, query) ==
  \E i \in 0..(Len(text) - Len(query)) :
    \A k \in 1..Len(query) : SameLetter(text[i + k], query[k])

\* The year/make/model/style text of an item, and the same with its category.
ItemText(v) ==
  NumberText(v.year) \o <<" ">> \o v.make \o <<" ">> \o v.model \o <<" ">> \o v.style
ItemTextWithCategory(v) == v.type \o <<" ">> \o ItemText(v)

\* The positions of the catalog whose item matches the current query.
MatchingPositions ==
  {i \in 1..Len(catalog) : ContainsIgnoringCase(ItemText(catalog[i]), filter)}

\* C16: an item is shown for a query exactly when the query is contained,
\* case-insensitively, in the composite of its category, year, make, model and
\* style (catalogs within the result cap, so that every match is rendered).
C16_FilterMatchesCategory ==
  (listShown /\ Len(catalog) <= Cap) =>
    \A i \in 1..Len(catalog) :
      (\E k \in 1..Len(vehicleList) : vehicleList[k] = catalog[i])
        <=> ContainsIgnoringCase(ItemTextWithCategory(catalog[i]), filter)

\* C17: the rendered items are, in catalog order, the first 100 of the items
\* whose year/make/model/style text contains the query case-insensitively (the
\* empty query selects every item), so the result is a function of catalog and
\* query; and a new query in the search box changes neither the catalog nor
\* the Selection.
C17_FilterResultSet ==
  /\ [](listShown =>
          LET M == MatchingPositions
          IN  /\ Len(vehicleList) = IF Cardinality(M) < Cap THEN Cardinality(M) ELSE Cap
              /\ \A i \in M :
                   LET rank == Cardinality({j \in M : j <= i})
                   IN  rank <= Cap => vehicleList[rank] = catalog[i]
              /\ filter = <<>> => Cardinality(M) = Len(catalog))
  /\ [][searchBox' # searchBox => (catalog' = catalog /\ myGarage' = myGarage)]_vars

\* A query in capitals matched more than 100 records written in lower and mixed
\* case, in a catalog that also holds a record it does not match.
C17_Witness ==
  /\ listShown
  /\ filter = <<"F", "O">>
  /\ Len(vehicleList) = Cap
  /\ Cardinality(MatchingPositions) > Cap
  /\ Cardinality(MatchingPositions) < Len(catalog)

\* C18: whenever more than 100 items match the current query, the empty query
\* included, exactly 100 are rendered and the line 'Showing 100 of Y results'
\* is shown with Y the number of matches; whenever at most 100 match, all are
\* rendered and no such line is shown.
C18_TruncationNotice ==
  listShown =>
    LET matches == Cardinality(MatchingPositions)
    IN  IF matches > Cap
        THEN /\ Len(vehicleList) = Cap
             /\ countLine.shown
             /\ countLine.x = Cap
             /\ countLine.y = matches
        ELSE /\ Len(vehicleList) = matches
             /\ ~countLine.shown

\* ----------------------------------------------------- gateway properties
\* C7: a successful saveSelection(customerId, items) followed by
\* getSelection(customerId), with no write in between, returns exactly items,
\* with count equal to the number of items.
C7_RoundTrip ==
  [][(/\ Succeeded(lastCall, "save")
      /\ Succeeded(lastCall', "get")
      /\ lastCall'.customerId = lastCall.customerId)
       => /\ lastCall'.response.vehicles = lastCall.vehicles
          /\ lastCall'.response.count = Len(lastCall.vehicles)]_vars

\* A list of the greatest length, with a repeated entry, was saved and read back.
C7_Witness ==
  /\ sequel = "readback"
  /\ Len(lastCall.response.vehicles) = MaxList
  /\ ~NoDuplicates(lastCall.response.vehicles)

\* C8: a second saveSelection with the same customerId and items, right after
\* the first, leaves the stored value as the first left it and returns the same
\* confirmation.
C8_SaveIdempotent ==
  [][(/\ Succeeded(lastCall, "save")
      /\ Succeeded(lastCall', "save")
      /\ lastCall'.customerId = lastCall.customerId
      /\ lastCall'.vehicles = lastCall.vehicles)
       => /\ store' = store
          /\ lastCall'.response = lastCall.response]_vars

\* A non-empty list was saved twice in a row over an earlier value.
C8_Witness ==
  /\ sequel = "repeat"
  /\ lastCall.vehicles # <<>>
  /\ lastCall.response.metafields[1].value = JSONstringify(lastCall.vehicles)

\* C9: a save given one form of a customer id (bare n, or gid://shopify/Customer/n)
\* is read back by a get given the other form; a bare id addresses the owner
\* gid://shopify/Customer/n and a qualified id is passed through unchanged.
C9_CustomerIdNormalization ==
  [][/\ (/\ Succeeded(lastCall, "save")
         /\ Succeeded(lastCall', "get")
         /\ OtherForm(lastCall.customerId, lastCall'.customerId))
          => lastCall'.response.vehicles = lastCall.vehicles
     /\ \A n \in CustomerNumbers :
          (lastCall'.calls = 1 /\ lastCall'.customerId \in {Bare(n), Qualified(n)})
            => lastCall'.ownerId = Qualified(n)]_vars

\* A non-empty list saved under one form was read back under the other form.
C9_Witness ==
  /\ sequel = "crossform"
  /\ lastCall.customerId \in StoreOwners
  /\ lastCall.response.vehicles # <<>>

\* The last request was refused by the gateway's validation.
RefusedByValidation(call) ==
  /\ call.response.status = 400
  /\ ~call.response.success
  /\ call.response.error \in {"customerId is required", "vehicles must be an array"}
  /\ call.calls = 0

\* C12: a save request without customerId, or whose vehicles field is missing or
\* no list, and a get request without customerId, is answered 400 with an error
\* body, the store is not called and the stored values are unchanged; a request
\* with a customerId and a list, the empty list included, passes validation and
\* reaches the store.
C12_ClientValidation ==
  [][/\ (/\ lastCall'.op = "save"
          /\ (lastCall'.customerId = NoCustomerId \/ lastCall'.vehiclesKind # "array"))
           => (RefusedByValidation(lastCall') /\ store' = store)
     /\ (lastCall'.op = "get" /\ lastCall'.customerId = NoCustomerId)
           => (RefusedByValidation(lastCall') /\ store' = store)
     /\ (/\ lastCall'.op = "save"
          /\ lastCall'.customerId # NoCustomerId
          /\ lastCall'.vehiclesKind = "array")
           => /\ ~RefusedByValidation(lastCall')
              /\ IsString(lastCall'.customerId) => lastCall'.calls = 1]_vars

\* A save whose vehicles is no list was refused for a customer with a stored value.
C12_Witness ==
  /\ lastCall.op = "save"
  /\ lastCall.vehiclesKind = "nonarray"
  /\ lastCall.customerId \in StoreOwners
  /\ RefusedByValidation(lastCall)
  /\ store[lastCall.customerId] # NoMetafield

\* C13: a successful getSelection returns the empty list with count 0 when the
\* customer has no stored value or does not exist, and otherwise the list whose
\* serialization is the stored value, with count equal to its length.
C13_GetSelection ==
  (lastCall.op = "get" /\ lastCall.response.status = 200) =>
    /\ lastCall.response.success
    /\ lastCall.response.count = Len(lastCall.response.vehicles)
    /\ IF lastCall.ownerId \notin DOMAIN store
       THEN lastCall.response.vehicles = <<>>
       ELSE IF store[lastCall.ownerId] = NoMetafield
       THEN lastCall.response.vehicles = <<>>
       ELSE JSONstringify(lastCall.response.vehicles) = store[lastCall.ownerId].value

\* The garage of a customer that does not exist was read while another customer
\* has a stored list.
C13_Witness ==
  /\ lastCall.op = "get"
  /\ lastCall.response.status = 200
  /\ lastCall.ownerId = Qualified(UnknownCustomerNumber)
  /\ lastCall.response.count = 0
  /\ \E o \in StoreOwners : store[o] # NoMetafield

\* C14: a save or get request that passes validation makes exactly one call to
\* the store: GraphQL errors, and userErrors on save, give status 400 carrying
\* them; a transport failure gives status 500; and the response is a success
\* exactly when the store accepted the call.
C14_OneCallNoRetry ==
  (lastCall.op \in {"save", "get"} /\ ~RefusedByValidation(lastCall)) =>
    /\ lastCall.calls = 1
    /\ lastCall.answer \in {"errors", "userErrors"} =>
          /\ lastCall.response.status = 400
          /\ lastCall.response.error = lastCall.answer
    /\ lastCall.answer = "throw" => lastCall.response.status = 500
    /\ lastCall.answer # "ok" =>
          /\ ~lastCall.response.success
          /\ lastCall.response.vehicles = <<>>
          /\ lastCall.response.metafields = <<>>
    /\ lastCall.answer = "ok" <=>
          (lastCall.response.status = 200 /\ lastCall.response.success)

\* The store rejected a save with userErrors while holding an earlier value.
C14_Witness ==
  /\ lastCall.op = "save"
  /\ lastCall.answer = "userErrors"
  /\ lastCall.calls = 1
  /\ lastCall.response.status = 400
  /\ lastCall.ownerId \in StoreOwners
  /\ store[lastCall.ownerId] # NoMetafield

\* The mutations applied for one owner, in the order the store applied them.
AppliedFor(ownerId) == SelectSeq(applyLog, LAMBDA e : e.ownerId = ownerId)

\* C15: the stored value of a customer is exactly the list of the save the store
\* applied last for that customer, whatever was stored before and whatever
\* other saves overlapped with it (no merge, no append, no mixture); a customer
\* no save was applied for has no value.
C15_LastWriterWins ==
  \A o \in StoreOwners :
    IF AppliedFor(o) = <<>>
    THEN store[o] = NoMetafield
    ELSE /\ JSONparse(store[o].value) = AppliedFor(o)[Len(AppliedFor(o))].vehicles
         /\ store[o].namespace = "custom"
         /\ store[o].key = "garage"

\* Two overlapping saves of different non-empty lists for one customer were
\* applied in the reverse of the order they were received in.
C15_Witness ==
  \E o \in StoreOwners :
    /\ Len(AppliedFor(o)) = 2
    /\ AppliedFor(o)[1].n > AppliedFor(o)[2].n
    /\ AppliedFor(o)[1].vehicles # <<>>
    /\ AppliedFor(o)[2].vehicles # <<>>
    /\ Ids(AppliedFor(o)[1].vehicles) # Ids(AppliedFor(o)[2].vehicles)

\* -------------------------------------------------------- list properties
\* The records of the pages the store returned, in the order it returned them.
RECURSIVE FlattenPages(_)
FlattenPages(pages) ==
  IF pages = <<>> THEN <<>>
  ELSE TransformNodes(Head(pages)) \o FlattenPages(Tail(pages))

\* C10: listCatalog sends at most 10 page requests, also to a store that reports
\* hasNextPage on every page; after the 10th it can only respond; and a success
\* response carries the in-order concatenation of the records of the pages
\* fetched, with count equal to the length of that list.
C10_ListTerminates ==
  /\ pageRequests <= MaxPages
  /\ (listState = "running" /\ pageRequests = MaxPages) => ENABLED ListRespond
  /\ (listState = "responded" /\ listResponse.status = 200)
       => /\ listResponse.success
          /\ listResponse.vehicles = FlattenPages(pagesFetched)
          /\ listResponse.count = Len(listResponse.vehicles)

\* The store reported hasNextPage on all 10 full pages and the list was returned.
C10_Witness ==
  /\ listState = "responded"
  /\ listResponse.status = 200
  /\ pageRequests = MaxPages
  /\ hasNextPage
  /\ listResponse.count = MaxPages * MaxNodes

\* C11: listCatalog fails as a whole when a page request errors: upstream errors
\* on the k-th page give status 400 with an error body and no vehicle list, also
\* when pages 1..k-1 returned records; a transport failure gives status 500; no
\* further page is requested and no second response is sent (once a response is
\* sent nothing changes any more); and a response without success is one of
\* these two.
C11_ListFailsAsAWhole ==
  /\ [](listState = "responded" =>
          /\ listResponse.status \in {200, 400, 500}
          /\ listResponse.status # 200 =>
                /\ ~listResponse.success
                /\ listResponse.error # ""
                /\ listResponse.vehicles = <<>>
                /\ listResponse.count = 0
                /\ pageRequests = Len(pagesFetched) + 1
          /\ listResponse.status = 400 <=> listResponse.error = "errors"
          /\ listResponse.status = 500 <=> listResponse.error = "throw")
  /\ [][listState = "responded" => UNCHANGED listVars]_vars

\* The third page request returned upstream errors after two pages of records.
C11_Witness ==
  /\ listState = "responded"
  /\ listResponse.status = 400
  /\ Len(pagesFetched) = 2
  /\ Len(FlattenPages(pagesFetched)) = 2 * MaxNodes
  /\ listResponse.vehicles = <<>>

\* ------------------------------------------------------------------- C21
\* The step in which loadCustomerGarage() handles a failed get-selection call.
LoadFailureHandled ==
  /\ loadCall.state = "responded"
  /\ loadCall.status # 200
  /\ loadCall'.state = "done"

\* C21: on a gateway failure seen by the widget (the initial get-selection call
\* or a save call answered with a network error or a non-OK status), the
\* Selection after the failure is handled is the same as right before it.
C21_FailureLeavesSelection ==
  [][/\ LoadFailureHandled => myGarage' = myGarage
     /\ FailureHandled => myGarage' = myGarage]_vars

\* ------------------------------------------------------------------- C22
\* C22: the catalog is fetched when the picker is first opened and cached for
\* the session: over any sequence of opens and closes (a second open before the
\* first fetch has completed, after a failed fetch, or after an empty catalog was
\* returned) the widget issues at most one catalog list request.
C22_CatalogFetchedOnce == listRequests <= 1

\* ------------------------------------------------------------------- C23
\* C23: once the initial load has completed, and after every toggle or remove,
\* the badge shows the number of entries of the Selection and is marked active
\* exactly when that number is greater than 0.
C23_BadgeInvariant ==
  (loadCall.state = "done" \/ toggled) =>
    /\ garageBadge.text = Len(myGarage)
    /\ garageBadge.active <=> Len(myGarage) > 0

\* The load has completed with a stored vehicle and the user has removed it: the
\* badge shows 0 and is no longer marked active.
C23_Witness ==
  /\ loadCall.state = "done"
  /\ loadCall.status = 200
  /\ JSONparse(loadCall.vehicles) # <<>>
  /\ toggled
  /\ myGarage = <<>>
  /\ garageBadge = [text |-> 0, active |-> FALSE]

\* ------------------------------------------------------------------- C24
\* The step in which a toggle is applied while a save call is in flight.
ToggleDuringSave ==
  /\ saveCalls # <<>>
  /\ loadCall' = loadCall
  /\ myGarage' # myGarage

FireDropped ==
  /\ isSaving
  /\ \E t \in timers : t.left = 0 /\ timers' = timers \ {t}
  /\ saveCalls' = saveCalls

\* C25: whenever the debounce timer fires while a save is in flight and the fire
\* is dropped, a subsequent debounce timer is armed at that moment, so that a
\* later fire issues the save.
C25_DroppedFireRetried == [][FireDropped => timers' # {}]_vars

\* ------------------------------------------------------------------- C28
\* C28: in every reachable state of the widget isSaving is true exactly when a
\* save call is outstanding (issued, and autoSaveGarage has not yet resumed from
\* it): the flag is set when the call is issued and cleared on the success and on
\* the failure path, so the guard never stays set and blocks the later saves.
C28_IsSavingIffOutstanding == isSaving <=> saveCalls # <<>>

\* A save has failed before, and a later save is in flight with the flag set.
C28_Witness ==
  /\ saveFailed
  /\ isSaving
  /\ Len(saveCalls) = 1
  /\ saveCalls[1].status = Pending

\* ------------------------------------------------------------------- C29
\* The step in which loadCustomerGarage() handles the response of the boot-time
\* load, and the list that response carries (none when the load failed).
LoadHandled == loadCall.state = "responded" /\ loadCall'.state = "done"
LoadedList == IF loadCall.status = 200 THEN JSONparse(loadCall.vehicles) ELSE <<>>

\* C29: toggles applied before the response of the initial get-selection call
\* arrives are not lost: once the response (success or failure) has been handled
\* the Selection still reflects them (a vehicle is in it exactly when it was
\* loaded and not toggled, or toggled and not loaded), so that the save their
\* debounce triggers, whose body is the Selection, carries them.
C29_PreLoadTogglesKept ==
  [][LoadHandled =>
       \A v \in Vehicles :
         v.vehicle_id \in Ids(myGarage') <=>
           ((v.vehicle_id \in Ids(LoadedList)) # (v.vehicle_id \in toggledOdd))]_vars

\* ------------------------------------------------------------- C26 and C27
\* The batches of the mutations sent so far, one after the other.
RECURSIVE BatchesSent(_)
BatchesSent(k) ==
  IF k = 0 THEN <<>> ELSE BatchesSent(k - 1) \o mutations[k].batch

\* Math.ceil(n / BATCH_SIZE)
CeilBatches(n) == (n + BATCH_SIZE - 1) \div BATCH_SIZE

\* C26: for n parsed vehicles importVehicles issues exactly ceil(n/25)
\* bulk-create mutations; the batches partition the list in input order, each
\* holding at most 25 vehicles and each vehicle in exactly one batch; a batch
\* that fails (userErrors or a thrown error) does not keep the later batches
\* from being sent.
C26_ImporterBatching ==
  /\ \A k \in 1..Len(mutations) :
       Len(mutations[k].batch) \in 1..BATCH_SIZE
  /\ BatchesSent(Len(mutations)) = SubSeq(parsed, 1, Len(BatchesSent(Len(mutations))))
  /\ Len(mutations) <= CeilBatches(Len(parsed))
  /\ importPc = "done" =>
       /\ Len(mutations) = CeilBatches(Len(parsed))
       /\ BatchesSent(Len(mutations)) = parsed
       /\ successCount + errorCount = Len(parsed)

\* Three batches were sent, the last one short, although the first was answered
\* with userErrors and the second threw.
C26_Witness ==
  /\ importPc = "done"
  /\ Len(parsed) = 2 * BATCH_SIZE + 1
  /\ Len(mutations) = 3
  /\ mutations[1].outcome = "userErrors"
  /\ mutations[2].outcome = "throw"
  /\ mutations[3].outcome = "ok"
  /\ Len(mutations[3].batch) = 1

\* C27: between any two consecutive bulk-create mutations of importVehicles the
\* fixed inter-batch delay of 500 ms elapses, whatever the outcome of the earlier
\* batch (success, userErrors or a thrown error); no delay is added after the
\* last batch.
C27_ImporterRateLimit ==
  /\ \A k \in 2..Len(mutations) : mutations[k].at - mutations[k - 1].at >= RateLimitMs
  /\ importPc = "done" /\ mutations # <<>> => waits = Len(mutations) - 1

\* ------------------------------------------------------------------- C30
\* C30: every save request receives exactly one response, with status 200, 400
\* or 500, whatever the shape of its body: customerId missing, a string (bare or
\* qualified) or a value that is no string, and vehicles missing, a list or
\* something else.
C30_SaveAlwaysAnswered ==
  lastCall.op = "save" => lastCall.response.status \in {200, 400, 500}

====
